---- MODULE Spec2Model ----
(***************************************************************************)
(* Model of ScrabbleSolver's solve(): rack distribution, text filters,     *)
(* blank-tile feasibility loop, std::sort comparators and result           *)
(* formatting (src/ScrabbleSolver/src/Main.cpp), together with the         *)
(* filter-less solve() of the simpler variant (src/unnamed/part_000).      *)
(*                                                                         *)
(* Characters are their ASCII codes; a C string or std::string is a        *)
(* sequence of codes.  A size_t value is held as an integer whose negative *)
(* values -k stand for the wrapped value 2^w - k, for any width w.         *)
(***************************************************************************)
EXTENDS Integers, Sequences, FiniteSets

VARIABLES dictionary, input, startsWith, endsWith, contains, method,
          pc, words, results,
          variant, window, radio, staticMethod, edit, lastRadio, lastMsg

\* the window procedure's state: which program runs ("none" when solve is
\* called on its own), whether WM_CREATE was handled, the radio button that
\* shows checked, the static method of the simpler variant, the texts of the
\* edit controls, and the history: the radio button clicked last and the
\* message handled last
guiVars == <<variant, window, radio, staticMethod, edit, lastRadio, lastMsg>>

vars == <<dictionary, input, startsWith, endsWith, contains, method,
          pc, words, results, guiVars>>

(* ---------------- bounds and input universe ---------------- *)

\* longest dictionary solved without filters
MaxDict == 3

\* longest dictionary solved under every combination of filters
MaxFilterDict == 1

\* "CAT", "ACT", "DOG", "GO", "cat", "ZO"
Words == { <<67, 65, 84>>, <<65, 67, 84>>, <<68, 79, 71>>, <<71, 79>>,
           <<99, 97, 116>>, <<90, 79>> }

\* "TAC", "CA?", "z??", "GO???", ""
Racks == { <<84, 65, 67>>, <<67, 65, 63>>, <<122, 63, 63>>,
           <<71, 79, 63, 63, 63>>, <<>> }

\* "", "C", "ca"
StartsFilters == { <<>>, <<67>>, <<99, 97>> }

\* "", "T", "INGS"
EndsFilters == { <<>>, <<84>>, <<73, 78, 71, 83>> }

\* "", "A", "OG"
ContainsFilters == { <<>>, <<65>>, <<79, 71>> }

Dictionaries(max) == UNION { [1..n -> Words] : n \in 0..max }

\* longest dictionary solved over the inputs that hold characters other than
\* letters and '?', or more copies of one character than a char slot counts
MaxCharDict == 2

\* 128 times 'A'
LongWord == [k \in 1..128 |-> 65]

\* "CAT", "-", "GO", "cat", 128 times 'A'
CharWords == { <<67, 65, 84>>, <<45>>, <<71, 79>>, <<99, 97, 116>>, LongWord }

\* "", "T-AC", "C.a?", 128 times 'A'
CharRacks == { <<>>, <<84, 45, 65, 67>>, <<67, 46, 97, 63>>, LongWord }

\* "", "C-"
CharStartsFilters == { <<>>, <<67, 45>> }

\* "", "T."
CharEndsFilters == { <<>>, <<84, 46>> }

\* "", "-", "A"
CharContainsFilters == { <<>>, <<45>>, <<65>> }

CharDictionaries(max) == UNION { [1..n -> CharWords] : n \in 0..max }

SortingMethod == { "None", "Points", "Length" }

(* ---------------- characters ---------------- *)

IsUpper(c) == c >= 65 /\ c <= 90

IsLower(c) == c >= 97 /\ c <= 122

\* what an ES_UPPERCASE edit control makes of a typed character
ToUpperChar(c) == IF IsLower(c) THEN c - 32 ELSE c

ToUpperStr(s) == [k \in 1..Len(s) |-> ToUpperChar(s[k])]

\* value of a char slot that started at 0 after n increments: a signed 8-bit
\* count, 127 + 1 wraps to -128
Char8(n) == ((n + 128) % 256) - 128

(* ---------------- convert / calculate ---------------- *)

points == << 1, 3, 3, 2, 1, 4, 2, 4, 1, 8, 5, 1, 3, 1, 1, 3,
             10, 1, 1, 1, 1, 4, 4, 8, 4, 10 >>

convert(letter) ==
    IF IsUpper(letter) THEN points[(letter - 65) + 1]
    ELSE IF IsLower(letter) THEN points[(letter - 97) + 1]
    ELSE 0

\* the loop over the letters lo..hi of word, split in halves so that a long
\* word does not nest the evaluation once per letter
RECURSIVE calculateRange(_, _, _)
calculateRange(word, lo, hi) ==
    IF lo > hi THEN 0
    ELSE IF lo = hi THEN convert(word[lo])
    ELSE LET mid == (lo + hi) \div 2
         IN calculateRange(word, lo, mid) + calculateRange(word, mid + 1, hi)

calculateFrom(word, i) == calculateRange(word, i, Len(word))

calculate(word) == calculateFrom(word, 1)

(* ---------------- rack and word distributions ---------------- *)

\* variant: any character that is not a letter counts as a blank
RackSlot_OtherIsBlank(c) ==
    IF IsUpper(c) THEN c - 65
    ELSE IF IsLower(c) THEN c - 97
    ELSE 26

\* one iteration of the rack loop: slot touched by character c, or -1
RackSlot(c) ==
    IF IsUpper(c) THEN c - 65
    ELSE IF IsLower(c) THEN c - 97
    ELSE IF c = 63 THEN 26
    ELSE -1

\* the rack loop, slot by slot: every character of str increments the slot
\* it maps to, so a slot ends as the char count of the characters mapped to it
RECURSIVE BuildLettersSlots(_, _, _)
BuildLettersSlots(str, slots, acc) ==
    IF slots = {} THEN acc
    ELSE LET s == CHOOSE t \in slots : TRUE
         IN BuildLettersSlots(str, slots \ {s},
                [acc EXCEPT ![s] = Char8(Cardinality(
                    { k \in 1..Len(str) : RackSlot(str[k]) = s }))])

BuildLetters(str) ==
    BuildLettersSlots(str, { RackSlot(str[k]) : k \in 1..Len(str) } \ {-1},
                      [s \in 0..26 |-> 0])

\* char letters[27], slots 0..25 letters, slot 26 blanks
letters(str) == BuildLetters(str)

FreqSlot(c) ==
    IF IsUpper(c) THEN c - 65
    ELSE IF IsLower(c) THEN c - 97
    ELSE -1

\* the frequency loop, slot by slot: every character of word increments the
\* slot it maps to
RECURSIVE BuildFrequencySlots(_, _, _)
BuildFrequencySlots(word, slots, acc) ==
    IF slots = {} THEN acc
    ELSE LET s == CHOOSE t \in slots : TRUE
         IN BuildFrequencySlots(word, slots \ {s},
                [acc EXCEPT ![s] = Char8(Cardinality(
                    { k \in 1..Len(word) : FreqSlot(word[k]) = s }))])

BuildFrequency(word) ==
    BuildFrequencySlots(word, { FreqSlot(word[k]) : k \in 1..Len(word) } \ {-1},
                        [s \in 0..25 |-> 0])

\* char frequency[26]
frequency(word) == BuildFrequency(word)

(* ---------------- feasibility loop ---------------- *)

\* variant: the blanks a letter uses are not taken from the budget
RECURSIVE FeasibilityLoop_BlanksNotSpent(_, _, _, _, _)
FeasibilityLoop_BlanksNotSpent(freq, lets, i, blanks, pts) ==
    IF i >= 26 THEN [valid |-> TRUE, points |-> pts]
    ELSE IF freq[i] > lets[i]
         THEN IF blanks >= freq[i] - lets[i]
              THEN FeasibilityLoop_BlanksNotSpent(freq, lets, i + 1, blanks,
                       pts - convert(i + 65) * (freq[i] - lets[i]))
              ELSE [valid |-> FALSE, points |-> pts]
         ELSE FeasibilityLoop_BlanksNotSpent(freq, lets, i + 1, blanks, pts)

\* variant: a letter covered by a blank keeps its points
RECURSIVE FeasibilityLoop_NoDeduction(_, _, _, _, _)
FeasibilityLoop_NoDeduction(freq, lets, i, blanks, pts) ==
    IF i >= 26 THEN [valid |-> TRUE, points |-> pts]
    ELSE IF freq[i] > lets[i]
         THEN IF blanks >= freq[i] - lets[i]
              THEN FeasibilityLoop_NoDeduction(freq, lets, i + 1,
                       blanks - (freq[i] - lets[i]), pts)
              ELSE [valid |-> FALSE, points |-> pts]
         ELSE FeasibilityLoop_NoDeduction(freq, lets, i + 1, blanks, pts)

\* the for loop over i = 0..25 with its running blanks and points and the
\* break on the first letter the blanks cannot cover
RECURSIVE FeasibilityLoop(_, _, _, _, _)
FeasibilityLoop(freq, lets, i, blanks, pts) ==
    IF i >= 26 THEN [valid |-> TRUE, points |-> pts]
    ELSE IF freq[i] > lets[i]
         THEN IF blanks >= freq[i] - lets[i]
              THEN FeasibilityLoop(freq, lets, i + 1,
                       blanks - (freq[i] - lets[i]),
                       pts - convert(i + 65) * (freq[i] - lets[i]))
              ELSE [valid |-> FALSE, points |-> pts]
         ELSE FeasibilityLoop(freq, lets, i + 1, blanks, pts)

Feasibility(word, lets) ==
    FeasibilityLoop(frequency(word), lets, 0, lets[26], calculate(word))

(* ---------------- std::string find / rfind ---------------- *)

npos == -1

\* unsigned pos <= x for an in-range index x >= 0
ULeq(pos, x) == pos >= 0 /\ pos <= x

MatchAt(str, s, x) ==
    /\ x + Len(s) <= Len(str)
    /\ \A k \in 1..Len(s) : str[x + k] = s[k]

SetMin(S) == CHOOSE x \in S : \A y \in S : x <= y

SetMax(S) == CHOOSE x \in S : \A y \in S : x >= y

\* variant: a start position past the end is returned as the match position
StrFind_NoRangeCheck(str, s, pos) ==
    LET hits == { x \in 0..Len(str) : ULeq(pos, x) /\ MatchAt(str, s, x) }
    IN IF pos < 0 \/ pos > Len(str) THEN pos
       ELSE IF hits = {} THEN npos ELSE SetMin(hits)

\* str.find(s, pos): lowest xpos with pos <= xpos, xpos + n <= size and a match
StrFind(str, s, pos) ==
    LET hits == { x \in 0..Len(str) : ULeq(pos, x) /\ MatchAt(str, s, x) }
    IN IF hits = {} THEN npos ELSE SetMin(hits)

\* variant: rfind without its position argument (last match anywhere)
StrRFind_AnyPos(str, s, pos) ==
    LET hits == { x \in 0..Len(str) : MatchAt(str, s, x) }
    IN IF hits = {} THEN npos ELSE SetMax(hits)

\* str.rfind(s, pos): highest xpos with xpos <= pos, xpos + n <= size and a match
StrRFind(str, s, pos) ==
    LET hits == { x \in 0..Len(str) :
                    (pos < 0 \/ x <= pos) /\ MatchAt(str, s, x) }
    IN IF hits = {} THEN npos ELSE SetMax(hits)

\* the indices of str that find(s, pos) compares: every candidate position
\* xpos with pos <= xpos and xpos + n <= size, n characters from each
FindReads(str, s, pos) ==
    UNION { { x + k - 1 : k \in 1..Len(s) } :
            x \in { y \in 0..Len(str) : ULeq(pos, y) /\ y + Len(s) <= Len(str) } }

\* word.length() - strlen(endsWith) in size_t arithmetic
EndsPos(word, ew) == Len(word) - Len(ew)

\* the three "continue" tests at the head of the dictionary loop
PassesFilters(word, sw, ew, ct) ==
    /\ StrRFind(word, sw, 0) # npos
    /\ StrFind(word, ew, EndsPos(word, ew)) # npos
    /\ StrFind(word, ct, 0) # npos

(* ---------------- dictionary loop ---------------- *)

\* variant: a word already collected is not collected again
RECURSIVE MatchFrom_Dedup(_, _, _, _, _, _, _)
MatchFrom_Dedup(dict, i, lets, sw, ew, ct, acc) ==
    IF i > Len(dict) THEN acc
    ELSE LET word == dict[i]
             f == Feasibility(word, lets)
         IN IF /\ PassesFilters(word, sw, ew, ct) /\ f.valid
               /\ \A k \in 1..Len(acc) : acc[k].first # word
            THEN MatchFrom_Dedup(dict, i + 1, lets, sw, ew, ct,
                     Append(acc, [first |-> word, second |-> f.points]))
            ELSE MatchFrom_Dedup(dict, i + 1, lets, sw, ew, ct, acc)

RECURSIVE MatchFrom(_, _, _, _, _, _, _)
MatchFrom(dict, i, lets, sw, ew, ct, acc) ==
    IF i > Len(dict) THEN acc
    ELSE LET word == dict[i]
             f == Feasibility(word, lets)
         IN IF PassesFilters(word, sw, ew, ct) /\ f.valid
            THEN MatchFrom(dict, i + 1, lets, sw, ew, ct,
                     Append(acc, [first |-> word, second |-> f.points]))
            ELSE MatchFrom(dict, i + 1, lets, sw, ew, ct, acc)

Match(dict, in, sw, ew, ct) == MatchFrom(dict, 1, letters(in), sw, ew, ct, <<>>)

(* ---------------- comparators and std::sort ---------------- *)

\* the character loop shared by both comparators; "fall" means the loop
\* ended without returning
CharLoop(a, b, i) ==
    LET differ == { k \in i..Len(a) : a[k] # b[k] }
    IN IF differ = {} THEN "fall"
       ELSE IF a[SetMin(differ)] < b[SetMin(differ)] THEN "true" ELSE "false"

\* variant: equal-length words are never ordered by their characters
LessLength_NoChars(a, b) == Len(a.first) < Len(b.first)

LessLength(a, b) ==
    LET r == IF Len(a.first) = Len(b.first) THEN CharLoop(a.first, b.first, 1)
             ELSE "fall"
    IN IF r = "fall" THEN Len(a.first) < Len(b.first) ELSE r = "true"

\* variant: the score comparison is reversed
LessPoints_Descending(a, b) ==
    IF a.second = b.second THEN LessLength(a, b)
    ELSE a.second > b.second

LessPoints(a, b) ==
    IF a.second = b.second THEN LessLength(a, b)
    ELSE a.second < b.second

Less(m, a, b) == IF m = "Points" THEN LessPoints(a, b) ELSE LessLength(a, b)

RECURSIVE InsertSorted(_, _, _)
InsertSorted(m, sorted, x) ==
    IF sorted = <<>> THEN <<x>>
    ELSE IF Less(m, x, Head(sorted)) THEN <<x>> \o sorted
    ELSE <<Head(sorted)>> \o InsertSorted(m, Tail(sorted), x)

RECURSIVE SortFrom(_, _, _, _)
SortFrom(m, ws, i, acc) ==
    IF i > Len(ws) THEN acc
    ELSE SortFrom(m, ws, i + 1, InsertSorted(m, acc, ws[i]))

\* the switch on method: std::sort under the mode's comparator, no case
\* for None
SortWords(m, ws) ==
    IF m \in {"Points", "Length"} THEN SortFrom(m, ws, 1, <<>>) ELSE ws

(* ---------------- formatting ---------------- *)

RECURSIVE Digits(_)
Digits(n) == IF n < 10 THEN <<48 + n>> ELSE Digits(n \div 10) \o <<48 + (n % 10)>>

\* std::to_string(int)
ToString(n) == IF n < 0 THEN <<45>> \o Digits(-n) ELSE Digits(n)

\* "No results"
NoResults == <<78, 111, 32, 114, 101, 115, 117, 108, 116, 115>>

\* pair.first + " (" + std::to_string(pair.second) + ")\r\n"
Line(pair) == pair.first \o <<32, 40>> \o ToString(pair.second) \o <<41, 13, 10>>

RECURSIVE AppendLines(_, _, _)
AppendLines(ws, i, acc) ==
    IF i > Len(ws) THEN acc
    ELSE AppendLines(ws, i + 1, acc \o Line(ws[i]))

PopBack(s) == SubSeq(s, 1, Len(s) - 1)

\* variant: only one character is popped from the end
Format_OnePop(ws) ==
    IF ws = <<>> THEN NoResults
    ELSE PopBack(AppendLines(ws, 1, <<>>))

Format(ws) ==
    IF ws = <<>> THEN NoResults
    ELSE PopBack(PopBack(AppendLines(ws, 1, <<>>)))

(* ---------------- solve ---------------- *)

solveWords(dict, in, sw, ew, ct, m) == SortWords(m, Match(dict, in, sw, ew, ct))

solve(dict, in, sw, ew, ct, m) == Format(solveWords(dict, in, sw, ew, ct, m))

(* ---------------- solve of the filter-less variant ---------------- *)

RECURSIVE MatchFromSimple(_, _, _, _)
MatchFromSimple(dict, i, lets, acc) ==
    IF i > Len(dict) THEN acc
    ELSE LET word == dict[i]
             f == Feasibility(word, lets)
         IN IF f.valid
            THEN MatchFromSimple(dict, i + 1, lets,
                     Append(acc, [first |-> word, second |-> f.points]))
            ELSE MatchFromSimple(dict, i + 1, lets, acc)

solveSimple(dict, in, m) ==
    Format(SortWords(m, MatchFromSimple(dict, 1, letters(in), <<>>)))

(* ---------------- state machine ---------------- *)

NoEdits == [letters |-> <<>>, starts |-> <<>>, ends |-> <<>>,
            contains |-> <<>>, results |-> <<>>]

\* solve called on its own, outside a window procedure
NoGui ==
    /\ variant = "none"
    /\ window = "none"
    /\ radio = "None"
    /\ staticMethod = "Points"
    /\ edit = NoEdits
    /\ lastRadio = "none"
    /\ lastMsg = "none"

Init ==
    /\ \/ /\ dictionary \in Dictionaries(MaxDict)
          /\ startsWith = <<>>
          /\ endsWith = <<>>
          /\ contains = <<>>
       \/ /\ dictionary \in Dictionaries(MaxFilterDict)
          /\ startsWith \in StartsFilters
          /\ endsWith \in EndsFilters
          /\ contains \in ContainsFilters
    /\ input \in Racks
    /\ method \in SortingMethod
    /\ pc = "call"
    /\ words = <<>>
    /\ results = <<>>
    /\ NoGui

Solve ==
    /\ pc = "call"
    /\ words' = solveWords(dictionary, input, startsWith, endsWith, contains, method)
    /\ results' = Format(words')
    /\ pc' = "returned"
    /\ UNCHANGED <<dictionary, input, startsWith, endsWith, contains, method>>
    /\ UNCHANGED guiVars

Next == Solve

Spec == Init /\ [][Next]_vars

\* solve called on inputs with characters it does not recognise and with
\* strings long enough to wrap an 8-bit count
InitChars ==
    /\ dictionary \in CharDictionaries(MaxCharDict)
    /\ input \in CharRacks
    /\ startsWith \in CharStartsFilters
    /\ endsWith \in CharEndsFilters
    /\ contains \in CharContainsFilters
    /\ method \in SortingMethod
    /\ pc = "call"
    /\ words = <<>>
    /\ results = <<>>
    /\ NoGui

SpecChars == InitChars /\ [][Next]_vars

(* ---------------- window procedure ---------------- *)

\* what loadDictionary may return: nothing, or the words of the resource;
\* here "CAT", "ACT", "DOG", "GO"
GuiDictionaries ==
    { <<>>, << <<67, 65, 84>>, <<65, 67, 84>>, <<68, 79, 71>>, <<71, 79>> >> }

\* what the user types into the letters control: "", "tac"
GuiLetters == { <<>>, <<116, 97, 99>> }

\* what the user types into a filter control: "", "c"
GuiFilters == { <<>>, <<99>> }

\* GetWindowTextA(control, buffer, 16): at most 15 characters are copied
GetWindowText(text) == SubSeq(text, 1, IF Len(text) > 15 THEN 15 ELSE Len(text))

InitGui ==
    /\ variant \in {"Main", "part_000"}
    /\ window = "none"
    /\ dictionary = <<>>
    /\ radio = "None"
    /\ staticMethod = "Points"
    /\ edit = NoEdits
    /\ lastRadio = "none"
    /\ lastMsg = "none"
    /\ input = <<>>
    /\ startsWith = <<>>
    /\ endsWith = <<>>
    /\ contains = <<>>
    /\ method = "None"
    /\ pc = "idle"
    /\ words = <<>>
    /\ results = <<>>

\* variant: WM_CREATE without the CheckRadioButton call
Create_NoCheckRadioButton ==
    /\ window = "none"
    /\ window' = "created"
    /\ dictionary' \in GuiDictionaries
    /\ radio' = "None"
    /\ edit' = NoEdits
    /\ lastRadio' = "none"
    /\ lastMsg' = "create"
    /\ UNCHANGED <<variant, staticMethod, input, startsWith, endsWith,
                   contains, method, pc, words, results>>

\* WM_CREATE: the dictionary is loaded, the controls are created empty and
\* CheckRadioButton checks Points
Create ==
    /\ window = "none"
    /\ window' = "created"
    /\ dictionary' \in GuiDictionaries
    /\ radio' = "Points"
    /\ edit' = NoEdits
    /\ lastRadio' = "none"
    /\ lastMsg' = "create"
    /\ UNCHANGED <<variant, staticMethod, input, startsWith, endsWith,
                   contains, method, pc, words, results>>

\* a click on the radio button b: the auto radio button checks itself and
\* unchecks the other; the simpler variant also stores the mode in its
\* static method, the richer one has no case for the button
ClickRadio(b) ==
    /\ window = "created"
    /\ radio' = b
    /\ staticMethod' = IF variant = "part_000" THEN b ELSE staticMethod
    /\ lastRadio' = b
    /\ lastMsg' = "radio"
    /\ UNCHANGED <<variant, window, edit, dictionary, input, startsWith,
                   endsWith, contains, method, pc, words, results>>

ClickPoints == ClickRadio("Points")

ClickLength == ClickRadio("Length")

\* the user types into the letters control (ES_UPPERCASE)
TypeLetters ==
    /\ window = "created"
    /\ \E text \in GuiLetters : edit' = [edit EXCEPT !.letters = ToUpperStr(text)]
    /\ lastMsg' = "type"
    /\ UNCHANGED <<variant, window, radio, staticMethod, lastRadio, dictionary,
                   input, startsWith, endsWith, contains, method, pc, words,
                   results>>

\* the user types into one of the three filter controls of the richer
\* variant (ES_UPPERCASE)
TypeFilter ==
    /\ window = "created"
    /\ variant = "Main"
    /\ \E text \in GuiFilters :
          \/ edit' = [edit EXCEPT !.starts = ToUpperStr(text)]
          \/ edit' = [edit EXCEPT !.ends = ToUpperStr(text)]
          \/ edit' = [edit EXCEPT !.contains = ToUpperStr(text)]
    /\ lastMsg' = "type"
    /\ UNCHANGED <<variant, window, radio, staticMethod, lastRadio, dictionary,
                   input, startsWith, endsWith, contains, method, pc, words,
                   results>>

\* IDM_CLEAR of the richer variant: the five edit controls are emptied
ClickClear ==
    /\ window = "created"
    /\ variant = "Main"
    /\ edit' = NoEdits
    /\ lastMsg' = "clear"
    /\ UNCHANGED <<variant, window, radio, staticMethod, lastRadio, dictionary,
                   input, startsWith, endsWith, contains, method, pc, words,
                   results>>

\* the mode IDM_SOLVE reads from the radio buttons
CheckedMethod ==
    IF radio = "Points" THEN "Points"
    ELSE IF radio = "Length" THEN "Length"
    ELSE "None"

\* IDM_SOLVE of the richer variant: solve is called, with the mode read
\* from the radio buttons, when the letters control is not empty
ClickSolveMain ==
    /\ window = "created"
    /\ variant = "Main"
    /\ IF Len(GetWindowText(edit.letters)) # 0
       THEN /\ method' = CheckedMethod
            /\ input' = GetWindowText(edit.letters)
            /\ startsWith' = GetWindowText(edit.starts)
            /\ endsWith' = GetWindowText(edit.ends)
            /\ contains' = GetWindowText(edit.contains)
            /\ words' = solveWords(dictionary, input', startsWith', endsWith',
                                   contains', method')
            /\ results' = Format(words')
            /\ edit' = [edit EXCEPT !.results = ToUpperStr(results')]
            /\ pc' = "returned"
            /\ lastMsg' = "solve"
       ELSE /\ lastMsg' = "solve-empty"
            /\ UNCHANGED <<method, input, startsWith, endsWith, contains,
                           words, results, edit, pc>>
    /\ UNCHANGED <<variant, window, radio, staticMethod, lastRadio, dictionary>>

\* IDC_SOLVE of the simpler variant: solve is called, with the static
\* method, when the letters control is not empty
ClickSolveSimple ==
    /\ window = "created"
    /\ variant = "part_000"
    /\ IF Len(GetWindowText(edit.letters)) # 0
       THEN /\ method' = staticMethod
            /\ input' = GetWindowText(edit.letters)
            /\ words' = SortWords(method',
                             MatchFromSimple(dictionary, 1, letters(input'), <<>>))
            /\ results' = Format(words')
            /\ edit' = [edit EXCEPT !.results = ToUpperStr(results')]
            /\ pc' = "returned"
            /\ lastMsg' = "solve"
            /\ UNCHANGED <<startsWith, endsWith, contains>>
       ELSE /\ lastMsg' = "solve-empty"
            /\ UNCHANGED <<method, input, startsWith, endsWith, contains,
                           words, results, edit, pc>>
    /\ UNCHANGED <<variant, window, radio, staticMethod, lastRadio, dictionary>>

NextGui ==
    \/ Create
    \/ ClickPoints
    \/ ClickLength
    \/ TypeLetters
    \/ TypeFilter
    \/ ClickClear
    \/ ClickSolveMain
    \/ ClickSolveSimple

SpecGui == InitGui /\ [][NextGui]_vars

(* ---------------- properties ---------------- *)

Max0(x) == IF x > 0 THEN x ELSE 0

RECURSIVE SumTo(_, _)
SumTo(f, n) == IF n < 0 THEN 0 ELSE f[n] + SumTo(f, n - 1)

\* sum over the 26 letters of max(0, wordCount[letter] - rackCount[letter])
TotalDeficit(word, rack) ==
    LET wordCount == frequency(word)
        rackCount == letters(rack)
    IN SumTo([l \in 0..25 |-> Max0(wordCount[l] - rackCount[l])], 25)

\* the same sum with every unit weighted by the letter's point value
DeficitValue(word, rack) ==
    LET wordCount == frequency(word)
        rackCount == letters(rack)
    IN SumTo([l \in 0..25 |->
                Max0(wordCount[l] - rackCount[l]) * convert(l + 65)], 25)

Emitted(word) == \E k \in 1..Len(words) : words[k].first = word

Passes(word) == PassesFilters(word, startsWith, endsWith, contains)

DictIdx == 1..Len(dictionary)

\* C1: the feasibility loop accepts a word exactly when its total deficit,
\* the sum over the 26 letters of max(0, wordCount - rackCount), is at most
\* the rack's blank count; so a word that passed the filters is emitted
\* exactly in that case.
C1_FeasibleIffDeficitWithinBlanks ==
    pc = "returned" =>
        \A i \in DictIdx :
            LET w == dictionary[i]
                within == TotalDeficit(w, input) <= letters(input)[26]
            IN /\ Feasibility(w, letters(input)).valid <=> within
               /\ Passes(w) => (Emitted(w) <=> within)

\* a word needing blanks for two different letters is emitted and a word
\* whose deficit exceeds a non-zero blank count is not
C1_Witness ==
    /\ pc = "returned"
    /\ letters(input)[26] >= 1
    /\ \E i \in DictIdx :
          /\ Emitted(dictionary[i])
          /\ Cardinality({ l \in 0..25 :
                 frequency(dictionary[i])[l] > letters(input)[l] }) >= 2
    /\ \E j \in DictIdx :
          /\ Passes(dictionary[j])
          /\ ~Emitted(dictionary[j])
          /\ TotalDeficit(dictionary[j], input) > letters(input)[26]

\* C2: every emitted score is calculate(word) minus the point value of the
\* deficit units (a blank contributes 0); a word with no deficit is emitted
\* with its base score, and rack "CA?" emits "CAT" with 4.
C2_ScoreIsBaseMinusBlankValue ==
    pc = "returned" =>
        /\ \A k \in 1..Len(words) :
              /\ words[k].second =
                    calculate(words[k].first) - DeficitValue(words[k].first, input)
              /\ TotalDeficit(words[k].first, input) = 0 =>
                    words[k].second = calculate(words[k].first)
        /\ input = <<67, 65, 63>> =>
              \A k \in 1..Len(words) :
                  words[k].first = <<67, 65, 84>> => words[k].second = 4

\* rack "CA?" has emitted "CAT" with score 4
C2_Witness ==
    /\ pc = "returned"
    /\ input = <<67, 65, 63>>
    /\ \E k \in 1..Len(words) :
          words[k] = [first |-> <<67, 65, 84>>, second |-> 4]

\* a is not after b by first differing character (words of equal length)
LexLeq(a, b) ==
    \/ a = b
    \/ \E i \in 1..Len(a) :
          /\ \A j \in 1..(i - 1) : a[j] = b[j]
          /\ a[i] < b[i]

LengthKeyLeq(a, b) ==
    \/ Len(a.first) < Len(b.first)
    \/ Len(a.first) = Len(b.first) /\ LexLeq(a.first, b.first)

PointsKeyLeq(a, b) ==
    \/ a.second < b.second
    \/ a.second = b.second /\ LengthKeyLeq(a, b)

\* C3: the emitted sequence ascends under the selected mode's key: by-score
\* on (score, length, first differing character), by-length on (length,
\* first differing character); dictionary [CAT, ACT, DOG] with rack "TAC"
\* in by-score mode gives ACT, CAT and no DOG.
C3_OutputAscending ==
    pc = "returned" =>
        /\ method = "Points" =>
              \A k \in 1..(Len(words) - 1) : PointsKeyLeq(words[k], words[k + 1])
        /\ method = "Length" =>
              \A k \in 1..(Len(words) - 1) : LengthKeyLeq(words[k], words[k + 1])
        /\ ( /\ method = "Points"
             /\ dictionary = << <<67, 65, 84>>, <<65, 67, 84>>, <<68, 79, 71>> >>
             /\ input = <<84, 65, 67>>
             /\ startsWith = <<>> /\ endsWith = <<>> /\ contains = <<>> ) =>
              words = << [first |-> <<65, 67, 84>>, second |-> 5],
                         [first |-> <<67, 65, 84>>, second |-> 5] >>

\* a by-score result that sorting had to reorder: the matches in dictionary
\* order are not ascending, and scores, lengths and characters all decide
C3_Witness ==
    /\ pc = "returned"
    /\ method = "Points"
    /\ Len(words) = 3
    /\ Match(dictionary, input, startsWith, endsWith, contains) # words
    /\ words[1].second = words[2].second
    /\ words[1].first # words[2].first
    /\ words[2].second < words[3].second

\* C4: under a fixed mode, of two candidates with different text exactly
\* one is less than the other, and two candidates are unordered in both
\* directions only when their text is identical.
C4_ComparatorTotal ==
    (pc = "returned" /\ method \in {"Points", "Length"}) =>
        \A i, j \in 1..Len(words) :
            i # j =>
               LET ab == Less(method, words[i], words[j])
                   ba == Less(method, words[j], words[i])
               IN /\ ~(ab /\ ba)
                  /\ words[i].first # words[j].first => (ab \/ ba)
                  /\ (~ab /\ ~ba) => words[i].first = words[j].first

\* the result holds two candidates of equal score and length but different
\* text, and two of identical text
C4_Witness ==
    /\ pc = "returned"
    /\ method \in {"Points", "Length"}
    /\ \E i, j \in 1..Len(words) :
          /\ i # j
          /\ words[i].first # words[j].first
          /\ words[i].second = words[j].second
          /\ Len(words[i].first) = Len(words[j].first)
    /\ \E i, j \in 1..Len(words) : i # j /\ words[i].first = words[j].first

\* C5: with the unset mode (None) solve's output equals its output under
\* Points for the same dictionary, rack and filters.
C5_NoneDefaultsToPoints ==
    (pc = "returned" /\ method = "None") =>
        results = solve(dictionary, input, startsWith, endsWith, contains, "Points")

\* C6: a non-empty endsWith longer than the word never admits the word, and
\* the wrapped start index makes find compare no character outside the word.
C6_LongEndsWithRejected ==
    pc = "returned" =>
        \A i \in DictIdx :
            LET w == dictionary[i] IN
            (endsWith # <<>> /\ Len(endsWith) > Len(w)) =>
                /\ StrFind(w, endsWith, EndsPos(w, endsWith)) = npos
                /\ ~Emitted(w)
                /\ FindReads(w, endsWith, EndsPos(w, endsWith)) \subseteq 0..(Len(w) - 1)

\* endsWith "INGS" against "GO" on a rack that can build "GO", the other
\* filters empty: only the endsWith test keeps "GO" out
C6_Witness ==
    /\ pc = "returned"
    /\ endsWith = <<73, 78, 71, 83>>
    /\ startsWith = <<>> /\ contains = <<>>
    /\ \E i \in DictIdx :
          /\ dictionary[i] = <<71, 79>>
          /\ Feasibility(dictionary[i], letters(input)).valid
    /\ results = NoResults

NoLower(s) == \A k \in 1..Len(s) : ~IsLower(s[k])

NoUpper(s) == \A k \in 1..Len(s) : ~IsUpper(s[k])

SameCase(w, sw, ew, ct) ==
    \/ NoLower(w) /\ NoLower(sw) /\ NoLower(ew) /\ NoLower(ct)
    \/ NoUpper(w) /\ NoUpper(sw) /\ NoUpper(ew) /\ NoUpper(ct)

IsPrefix(f, w) == Len(f) <= Len(w) /\ SubSeq(w, 1, Len(f)) = f

IsSuffix(f, w) == Len(f) <= Len(w) /\ SubSeq(w, Len(w) - Len(f) + 1, Len(w)) = f

IsSubstring(f, w) ==
    \E x \in 0..(Len(w) - Len(f)) : SubSeq(w, x + 1, x + Len(f)) = f

\* C7: for a word and filters in the same letter case the filter stage
\* admits the word exactly when startsWith is a prefix, endsWith a suffix and
\* contains a contiguous substring of it; with all three filters empty the
\* output equals that of the filter-less solve of the simpler variant.
C7_FiltersExactAndEmptyIsNoFilter ==
    pc = "returned" =>
        /\ \A i \in DictIdx :
              LET w == dictionary[i] IN
              SameCase(w, startsWith, endsWith, contains) =>
                 ( Passes(w) <=> /\ IsPrefix(startsWith, w)
                                 /\ IsSuffix(endsWith, w)
                                 /\ IsSubstring(contains, w) )
        /\ ( /\ startsWith = <<>> /\ endsWith = <<>> /\ contains = <<>>
             /\ method \in {"Points", "Length"} ) =>
              results = solveSimple(dictionary, input, method)

\* all three filters set on a same-case word that passes them and is
\* emitted
C7_Witness ==
    /\ pc = "returned"
    /\ startsWith # <<>> /\ endsWith # <<>> /\ contains # <<>>
    /\ \E i \in DictIdx :
          /\ SameCase(dictionary[i], startsWith, endsWith, contains)
          /\ Passes(dictionary[i]) /\ Emitted(dictionary[i])

\* a same-case word that holds the startsWith filter, but not at its
\* start, and is kept out by it
C7_WitnessNotPrefix ==
    /\ pc = "returned"
    /\ startsWith # <<>>
    /\ \E j \in DictIdx :
          /\ SameCase(dictionary[j], startsWith, endsWith, contains)
          /\ ~IsPrefix(startsWith, dictionary[j])
          /\ IsSubstring(startsWith, dictionary[j])
          /\ IsSuffix(endsWith, dictionary[j])
          /\ IsSubstring(contains, dictionary[j])
          /\ Feasibility(dictionary[j], letters(input)).valid
          /\ ~Passes(dictionary[j])

\* with no filter set the output is a non-empty list, the one the
\* filter-less variant returns
C7_WitnessEmpty ==
    /\ pc = "returned"
    /\ startsWith = <<>> /\ endsWith = <<>> /\ contains = <<>>
    /\ method = "Length"
    /\ Len(words) >= 2

\* C8: the three filters match case-insensitively: changing the case of
\* letters of the word or of a filter (here: to upper case) does not change
\* whether the word passes.
C8_FiltersCaseInsensitive ==
    pc = "returned" =>
        \A i \in DictIdx :
            Passes(dictionary[i]) <=>
                PassesFilters(ToUpperStr(dictionary[i]), ToUpperStr(startsWith),
                              ToUpperStr(endsWith), ToUpperStr(contains))

CRLF == <<13, 10>>

\* "<WORD> (<score>)"
Entry(pair) == pair.first \o <<32, 40>> \o ToString(pair.second) \o <<41>>

RECURSIVE JoinEntries(_)
JoinEntries(ws) ==
    IF Len(ws) = 1 THEN Entry(ws[1])
    ELSE Entry(Head(ws)) \o CRLF \o JoinEntries(Tail(ws))

\* C9: the returned string is "No results" when nothing was accepted, and
\* otherwise the sorted candidates as "<WORD> (<score>)" joined by "\r\n",
\* with no line ending before the first or after the last entry.
C9_FormatJoinsEntries ==
    pc = "returned" =>
        /\ words = <<>> => results = NoResults
        /\ words # <<>> =>
              /\ results = JoinEntries(words)
              /\ SubSeq(results, Len(results) - 1, Len(results)) # CRLF
              /\ SubSeq(results, 1, 2) # CRLF

\* a result of several entries, one of them with a two-digit score
C9_Witness ==
    /\ pc = "returned"
    /\ Len(words) >= 2
    /\ \E k \in 1..Len(words) : words[k].second >= 10
    /\ results # NoResults

\* an empty result
C9_WitnessEmpty ==
    /\ pc = "returned"
    /\ dictionary # <<>>
    /\ words = <<>>
    /\ results = NoResults

Qualifies(word) ==
    /\ IsPrefix(startsWith, word)
    /\ IsSuffix(endsWith, word)
    /\ IsSubstring(contains, word)
    /\ TotalDeficit(word, input) <= letters(input)[26]

\* C10: as a multiset the result is exactly the dictionary entries that
\* pass every filter and are constructible: a word occurring k times in
\* the dictionary occurs k times in the result if it qualifies and 0 times
\* otherwise, and sorting keeps the number of entries.
C10_MultisetOfQualifying ==
    pc = "returned" =>
        LET qualifying == { i \in DictIdx : Qualifies(dictionary[i]) }
        IN /\ \A i \in DictIdx :
                 LET w == dictionary[i]
                     inDict == Cardinality({ j \in DictIdx : dictionary[j] = w })
                     inWords == Cardinality({ k \in 1..Len(words) : words[k].first = w })
                 IN inWords = IF i \in qualifying THEN inDict ELSE 0
           /\ \A k \in 1..Len(words) :
                 \E i \in DictIdx : words[k].first = dictionary[i]
           /\ Len(words) = Cardinality(qualifying)

\* a qualifying word that occurs twice in the dictionary is emitted twice,
\* next to an entry that does not qualify
C10_Witness ==
    /\ pc = "returned"
    /\ \E i, j \in DictIdx :
          /\ i < j
          /\ dictionary[i] = dictionary[j]
          /\ Cardinality({ k \in 1..Len(words) :
                 words[k].first = dictionary[i] }) = 2
    /\ \E i \in DictIdx : ~Emitted(dictionary[i])

\* C11: with an empty rack and a dictionary without empty words solve
\* accepts nothing and returns "No results", whatever the filters and the
\* sort mode.
C11_EmptyRackNoResults ==
    ( /\ pc = "returned"
      /\ input = <<>>
      /\ \A i \in DictIdx : dictionary[i] # <<>> ) =>
        words = <<>> /\ results = NoResults

\* a character the rack loop counts: a letter or '?'
Recognized(c) == IsUpper(c) \/ IsLower(c) \/ c = 63

\* C12: for a rack string of any length the 27 slots of the rack
\* distribution, held in 8-bit chars, are all >= 0 and the 26 letter slots
\* plus the blank slot sum to the number of letters and '?' in the string.
C12_RackSlotsCountTheRack ==
    pc = "returned" =>
        LET slots == letters(input)
        IN /\ \A s \in 0..26 : slots[s] >= -128 /\ slots[s] <= 127
           /\ \A s \in 0..26 : slots[s] >= 0
           /\ SumTo(slots, 26) =
                 Cardinality({ k \in 1..Len(input) : Recognized(input[k]) })

IsLetter(c) == IsUpper(c) \/ IsLower(c)

\* the rack string without the characters that are neither letters nor '?'
StripRack(str) == SelectSeq(str, Recognized)

\* a filter string without the characters that are not letters
StripFilter(str) == SelectSeq(str, IsLetter)

\* C13 as stated: removing the unrecognized characters from the rack string
\* or from any of the three filter strings leaves solve's output unchanged.
C13_UnrecognizedIgnored ==
    pc = "returned" =>
        /\ results = solve(dictionary, StripRack(input),
                           startsWith, endsWith, contains, method)
        /\ results = solve(dictionary, input,
                           StripFilter(startsWith), endsWith, contains, method)
        /\ results = solve(dictionary, input,
                           startsWith, StripFilter(endsWith), contains, method)
        /\ results = solve(dictionary, input,
                           startsWith, endsWith, StripFilter(contains), method)

\* C13 amended: removing the characters that are neither letters nor '?'
\* from the rack string leaves solve's output unchanged; the characters of a
\* filter string are not ignored: a word passes only if it holds the whole
\* filter string, character for character.
C13_UnrecognizedRackIgnored ==
    pc = "returned" =>
        /\ results = solve(dictionary, StripRack(input),
                           startsWith, endsWith, contains, method)
        /\ \A i \in DictIdx :
              Passes(dictionary[i]) =>
                 /\ IsPrefix(startsWith, dictionary[i])
                 /\ IsSuffix(endsWith, dictionary[i])
                 /\ IsSubstring(contains, dictionary[i])

\* a rack with a character solve does not recognise has produced a word
\* from its letters, and one more blank would have produced another
C13_Witness ==
    /\ pc = "returned"
    /\ StripRack(input) # input
    /\ \E k \in 1..Len(words) : words[k].second > 0
    /\ \E i \in DictIdx :
          /\ Passes(dictionary[i])
          /\ ~Emitted(dictionary[i])
          /\ TotalDeficit(dictionary[i], input) = letters(input)[26] + 1

\* C14: in both GUI variants the mode a Solve click passes to solve is the
\* mode of the radio button clicked most recently, by-score if none was
\* clicked since creation; None is never passed.
C14_SolveGetsSelectedMode ==
    lastMsg = "solve" =>
        /\ method = IF lastRadio = "none" THEN "Points" ELSE lastRadio
        /\ method # "None"

\* the richer variant has just solved by length after a click on Length,
\* with a result of several words
C14_Witness ==
    /\ lastMsg = "solve"
    /\ variant = "Main"
    /\ lastRadio = "Length"
    /\ method = "Length"
    /\ Len(words) >= 2
    /\ edit.results = ToUpperStr(results)

====
